---- MODULE Spec2Model ----
\* Verification model of @stn-dts/tab-id-hook: the useTabId hook
\* (packages/tab-id-hook/src/client/use-tab-id.tsx), its storage and URL
\* synchronisation, and the surrounding React / router / browser environment
\* that calls into it.
\*
\* Text is modelled at the level of characters: every string of the program
\* (tokens, keys, query strings) is a sequence of one-character strings, so
\* that parsing and serialising a query string is computed, not assumed.
EXTENDS Integers, Sequences, FiniteSets, TLC

\* ---------------------------------------------------------------------------
\* JavaScript values
\* ---------------------------------------------------------------------------

\* null and undefined are two distinct non-string values. A string is a
\* sequence of one-character strings, so neither can be confused with one.
Null == <<"null">>
Undefined == <<"undefined">>

\* The value of `call` when no exported function has been called directly.
NoCall == [fn |-> "none"]

\* The value of `event` in a step that dispatches no `storage` event.
NoEvent == <<"no event">>
\* Nothing is counted; the counts of a hook that has just been mounted.
NoTally == [on |-> FALSE, navigations |-> 0, changes |-> 0]
ZeroTally == [on |-> TRUE, navigations |-> 0, changes |-> 0]
\* The counts after `calls` more calls of navigateFn and `renders` more
\* renders with a changed token or URL; the counts of a fresh mount.
Tallied(t, calls, renders) ==
    IF t.on THEN [t EXCEPT !.navigations = @ + calls, !.changes = @ + renders] ELSE t
Restarted(t) == IF t.on THEN ZeroTally ELSE t
\* No failure so far.
NoFailure == [kind |-> "none", surfaced |-> FALSE, stale |-> FALSE]

\* a ?? b
Coalesce(a, b) == IF a = Null \/ a = Undefined THEN b ELSE a

\* ---------------------------------------------------------------------------
\* defaults.ts
\* ---------------------------------------------------------------------------

SEARCH_PARAM_KEY == <<"t", "i", "d">>
SESSION_STORAGE_KEY == <<"t", "a", "b", "-", "i", "d">>

\* ---------------------------------------------------------------------------
\* State
\* ---------------------------------------------------------------------------

VARIABLES
    options,         \* the UseTabIdOptions the hook is called with
    sessionStorage,  \* window.sessionStorage of the tab: key -> string or Null
    entries,         \* the tab's history stack: the search string of each entry
    index,           \* the position of the current history entry
    phase,           \* "none" (document loading), "server" (server-rendered
                     \* markup, not hydrated), "client" (hook mounted),
                     \* "unmounted" (component torn down, document alive)
    id,              \* the value useTabId returned at its last render
    search,          \* useLocation().search as read by the last render
    dirty,           \* React has a re-render of the component scheduled
    effectPending,   \* the passive effects of the last commit have not run yet
    syncPending,     \* ... and the dependencies of the useEffect changed
    subscribed,      \* the `storage` listener is registered on window
    nav,             \* the navigation navigateFn was asked for, not committed
    thens,           \* a navigate promise resolved, its .then() not yet run
    event,           \* the key of the `storage` event dispatched on window in
                     \* the step just taken (NoEvent when there was none)
    budget,          \* how many more outside changes the run may contain
    call,            \* the last call of an exported function made outside the
                     \* hook (getTabId by a loader, generateId by any caller)
                     \* with its arguments and result; NoCall in the hook's runs
    storageFault,    \* how window.sessionStorage fails in this document:
                     \* "none", "read" (getItem raises), "write" (setItem raises)
    failure,         \* the failure the hook last ran into: its kind, whether
                     \* it left the hook uncaught, and whether the hook has
                     \* rendered another token or URL since (NoFailure if none)
    tally,           \* in the runs that count them (tally.on): how often the
                     \* mounted hook has called navigateFn, and how often it
                     \* has rendered with another token or another URL than
                     \* at its previous render
    peers            \* the components of the tab that call useTabId side by
                     \* side, each with the state of its own hook instance
                     \* (none is mounted in the runs of a single hook)

vars ==
    <<options, sessionStorage, entries, index, phase, id, search, dirty,
      effectPending, syncPending, subscribed, nav, thens, event, budget, call,
      storageFault, failure, tally, peers>>

\* ---------------------------------------------------------------------------
\* URLSearchParams (the platform class the hook parses and rebuilds the
\* query string with): application/x-www-form-urlencoded parse and serialise.
\* ---------------------------------------------------------------------------

\* F applied to the value of v, with v evaluated once (the text operators
\* below are recursive and would otherwise re-evaluate their arguments at
\* every use).
Eval(v, F(_)) == CHOOSE r \in {F(x) : x \in {v}} : TRUE

\* Characters the serialiser leaves as they are (alphanumerics and * - . _).
Unreserved ==
    {"a", "b", "c", "d", "e", "f", "g", "h", "i", "j", "k", "l", "m", "n", "o",
     "p", "q", "r", "s", "t", "u", "v", "w", "x", "y", "z",
     "A", "B", "C", "D", "E", "F", "G", "H", "I", "J", "K", "L", "M", "N", "O",
     "P", "Q", "R", "S", "T", "U", "V", "W", "X", "Y", "Z",
     "0", "1", "2", "3", "4", "5", "6", "7", "8", "9", "*", "-", ".", "_"}

\* The percent escapes of the characters that occur in the modelled URLs.
PercentCodes ==
    {<<" ", <<"%", "2", "0">> >>, <<"%", <<"%", "2", "5">> >>,
     <<"&", <<"%", "2", "6">> >>, <<"+", <<"%", "2", "B">> >>,
     <<"=", <<"%", "3", "D">> >>, <<"?", <<"%", "3", "F">> >>,
     <<"~", <<"%", "7", "E">> >>}

\* Percent-decoding of one name or value: "+" is a space, a known %XY escape
\* is its character, anything else (a stray "%" included) is kept.
RECURSIVE DecodeFrom(_, _)
DecodeFrom(s, i) ==
    IF i > Len(s) THEN <<>>
    ELSE IF s[i] = "+" THEN <<" ">> \o DecodeFrom(s, i + 1)
    ELSE IF s[i] = "%" /\ i + 2 <= Len(s)
            /\ \E pc \in PercentCodes : pc[2] = SubSeq(s, i, i + 2)
         THEN <<(CHOOSE pc \in PercentCodes : pc[2] = SubSeq(s, i, i + 2))[1]>>
              \o DecodeFrom(s, i + 3)
    ELSE <<s[i]>> \o DecodeFrom(s, i + 1)

Decode(s) == Eval(s, LAMBDA x : DecodeFrom(x, 1))

\* Percent-encoding of one name or value by the serialiser: a space becomes
\* "+", unreserved characters are kept, every other character is escaped.
RECURSIVE EncodeFrom(_, _)
EncodeFrom(s, i) ==
    IF i > Len(s) THEN <<>>
    ELSE IF s[i] = " " THEN <<"+">> \o EncodeFrom(s, i + 1)
    ELSE IF s[i] \in Unreserved THEN <<s[i]>> \o EncodeFrom(s, i + 1)
    ELSE (CHOOSE pc \in PercentCodes : pc[1] = s[i])[2] \o EncodeFrom(s, i + 1)

Encode(s) == Eval(s, LAMBDA x : EncodeFrom(x, 1))

\* The position of the first occurrence of character c in s at or after
\* `from`, or 0.
RECURSIVE IndexOf(_, _, _)
IndexOf(s, c, from) ==
    IF from > Len(s) THEN 0
    ELSE IF s[from] = c THEN from
    ELSE IndexOf(s, c, from + 1)

\* The pieces of s from position `from` on, cut at every occurrence of c.
RECURSIVE SplitFrom(_, _, _)
SplitFrom(s, c, from) ==
    Eval(IndexOf(s, c, from),
         LAMBDA i : IF i = 0 THEN <<SubSeq(s, from, Len(s))>>
                    ELSE <<SubSeq(s, from, i - 1)>> \o SplitFrom(s, c, i + 1))

\* s split at every occurrence of character c.
Split(s, c) == Eval(s, LAMBDA x : SplitFrom(x, c, 1))

\* One "name=value" piece of a query string as a decoded <<name, value>> pair;
\* a piece without "=" has the empty value.
ParsePair(piece) ==
    Eval(IndexOf(piece, "=", 1),
         LAMBDA i : IF i = 0 THEN <<Decode(piece), <<>> >>
                    ELSE <<Decode(SubSeq(piece, 1, i - 1)),
                           Decode(SubSeq(piece, i + 1, Len(piece)))>>)

RECURSIVE ParsePieces(_, _)
ParsePieces(pieces, i) ==
    IF i > Len(pieces) THEN <<>>
    ELSE IF pieces[i] = <<>> THEN ParsePieces(pieces, i + 1)
    ELSE <<Eval(pieces[i], LAMBDA piece : ParsePair(piece))>>
         \o ParsePieces(pieces, i + 1)

\* new URLSearchParams(init): one leading "?" is dropped, the rest is split at
\* "&", empty pieces are skipped. The result is the list of decoded pairs.
URLSearchParams(init) ==
    Eval(init,
         LAMBDA x : Eval(Split(IF x # <<>> /\ x[1] = "?" THEN Tail(x) ELSE x, "&"),
                         LAMBDA pieces : ParsePieces(pieces, 1)))

\* params.get(name): the first value bound to name, or null.
RECURSIVE ParamsGetFrom(_, _, _)
ParamsGetFrom(params, name, i) ==
    IF i > Len(params) THEN Null
    ELSE IF params[i][1] = name THEN params[i][2]
    ELSE ParamsGetFrom(params, name, i + 1)

ParamsGet(params, name) == Eval(params, LAMBDA p : ParamsGetFrom(p, name, 1))

\* The pairs of params from position i on whose name is not `name`.
RECURSIVE ParamsWithoutFrom(_, _, _)
ParamsWithoutFrom(params, name, i) ==
    IF i > Len(params) THEN <<>>
    ELSE IF params[i][1] = name THEN ParamsWithoutFrom(params, name, i + 1)
    ELSE <<params[i]>> \o ParamsWithoutFrom(params, name, i + 1)

ParamsWithout(params, name) == Eval(params, LAMBDA p : ParamsWithoutFrom(p, name, 1))

\* params.set(name, value): the first pair named name takes the value and the
\* later pairs of that name are removed; without such a pair one is appended.
RECURSIVE ParamsSetFrom(_, _, _, _)
ParamsSetFrom(params, name, value, i) ==
    IF i > Len(params) THEN << <<name, value>> >>
    ELSE IF params[i][1] = name
         THEN << <<name, value>> >> \o ParamsWithoutFrom(params, name, i + 1)
    ELSE <<params[i]>> \o ParamsSetFrom(params, name, value, i + 1)

ParamsSet(params, name, value) ==
    Eval(params, LAMBDA p : ParamsSetFrom(p, name, value, 1))

\* params.toString(): encoded name=value pieces joined by "&".
RECURSIVE ParamsToStringFrom(_, _)
ParamsToStringFrom(params, i) ==
    IF i > Len(params) THEN <<>>
    ELSE Encode(params[i][1]) \o <<"=">> \o Encode(params[i][2])
         \o (IF i = Len(params) THEN <<>>
             ELSE <<"&">> \o ParamsToStringFrom(params, i + 1))

ParamsToString(params) == Eval(params, LAMBDA p : ParamsToStringFrom(p, 1))

\* ---------------------------------------------------------------------------
\* generateId / randomString
\* ---------------------------------------------------------------------------

Letters ==
    <<"a", "b", "c", "d", "e", "f", "g", "h", "i", "j", "k", "l", "m", "n", "o",
      "p", "q", "r", "s", "t", "u", "v", "w", "x", "y", "z">>
Digits == <<"0", "1", "2", "3", "4", "5", "6", "7", "8", "9">>

\* One run of generateId consumes six values of
\* Math.floor(Math.random() * allowedChars.length): two in 0..25, four in 0..9.
\* The outcomes of the random source that the model explores.
RandomDraws ==
    {<<0, 0, 0, 0, 0, 0>>, <<18, 18, 5, 5, 5, 5>>}

\* randomString(len, allowedChars), with the random indexes made explicit.
randomString(len, allowedChars, draws) ==
    [i \in 1..len |-> allowedChars[draws[i] + 1]]

\* The alphabet randomString uses when it is given none.
DefaultAllowedChars == Digits \o Letters

\* Variants of generateId: one that leaves the prefix to the default alphabet
\* of randomString, one whose suffix does not depend on the random source.
generateId_DefaultChars(draws) ==
    LET prefix == randomString(2, DefaultAllowedChars, SubSeq(draws, 1, 2))
        suffix == randomString(4, Digits, SubSeq(draws, 3, 6))
    IN prefix \o <<"-">> \o suffix
generateId_FixedSuffix(draws) ==
    LET prefix == randomString(2, Letters, SubSeq(draws, 1, 2))
        suffix == randomString(4, Digits, <<0, 0, 0, 0>>)
    IN prefix \o <<"-">> \o suffix

\* generateId(): `${prefix}-${suffix}`.
generateId(draws) ==
    LET prefix == randomString(2, Letters, SubSeq(draws, 1, 2))
        suffix == randomString(4, Digits, SubSeq(draws, 3, 6))
    IN prefix \o <<"-">> \o suffix

\* ---------------------------------------------------------------------------
\* getSnapshot / subscribe
\* ---------------------------------------------------------------------------

\* Faulty variants of getSnapshot: one that takes the URL's token when the
\* store is empty, one that generates without looking at the store.
getSnapshot_AdoptsUrlToken(storage, sessionStorageKey, draws) ==
    LET fromUrl == ParamsGet(URLSearchParams(entries[index]), options.idSearchParamKey)
        value == Coalesce(storage[sessionStorageKey], Coalesce(fromUrl, generateId(draws)))
    IN [id |-> value, storage |-> [storage EXCEPT ![sessionStorageKey] = value]]

getSnapshot_AlwaysGenerates(storage, sessionStorageKey, draws) ==
    LET value == generateId(draws)
    IN [id |-> value, storage |-> [storage EXCEPT ![sessionStorageKey] = value]]

\* getSnapshot(sessionStorageKey) on the storage area `storage`: the stored
\* value, or a generated one when the key is absent; the value is then stored.
\* Yields the returned id and the storage area the call leaves behind.
getSnapshot(storage, sessionStorageKey, draws) ==
    LET value == Coalesce(storage[sessionStorageKey], generateId(draws))
    IN [id |-> value, storage |-> [storage EXCEPT ![sessionStorageKey] = value]]

\* The ways window.sessionStorage can be unavailable.
StorageFaults == {"read", "write"}

\* A variant that falls back to a store in memory when sessionStorage raises.
sessionStorageAccess_Fallback(fault) == "ok"

\* window.sessionStorage.getItem followed by setItem, as getSnapshot calls
\* them: either of them raising ends getSnapshot with that exception.
sessionStorageAccess(fault) == IF fault = "none" THEN "ok" ELSE "throws"

\* React re-reads the snapshot after subscribing and on every store change,
\* and schedules a re-render when it differs from the rendered value `prev`;
\* a getSnapshot that raises there counts as a changed snapshot, the
\* exception is raised again by the render that follows.
checkIfSnapshotChanged(fault, storage, sessionStorageKey, draws, prev) ==
    IF sessionStorageAccess(fault) = "throws"
    THEN [changed |-> TRUE, storage |-> storage]
    ELSE LET snap == getSnapshot(storage, sessionStorageKey, draws)
         IN [changed |-> snap.id # prev, storage |-> snap.storage]

\* Variants of the promise chain: one whose callback runs however the
\* promise settles, one that catches the rejection.
thenChain_CallbackOnSettle(outcome) ==
    [callback |-> TRUE, unhandled |-> outcome = "rejected"]
thenChain_CatchesRejection(outcome) ==
    [callback |-> outcome = "fulfilled", unhandled |-> FALSE]

\* void Promise.resolve(<navigate promise>).then(callback): the callback runs
\* when the promise fulfils; a rejection skips it and rejects the promise
\* .then() returned, which nothing handles.
thenChain(outcome) ==
    [callback |-> outcome = "fulfilled", unhandled |-> outcome = "rejected"]

\* Faulty variants of the listener: one that reacts to every event, one that
\* reacts to none.
handler_AnyKey(sessionStorageKey, key) == TRUE

handler_Never(sessionStorageKey, key) == FALSE

\* The `storage` listener that subscribe registers: does it invoke callback
\* for an event carrying `key`?
handler(sessionStorageKey, key) == key = sessionStorageKey

\* A faulty variant of the disposer: it leaves the listener registered.
disposer_KeepsListener(registered) == registered

\* The disposer subscribe returns, on "is the listener registered on window":
\* removeEventListener removes it, and does nothing when it is not there.
disposer(registered) == FALSE

\* ---------------------------------------------------------------------------
\* Bounds and input sets
\* ---------------------------------------------------------------------------

\* Outside changes (writes to the store, link navigations, back/forward, page
\* reloads by the user) per run.
MaxExternal == 2
\* Entries the history stack may grow to.
MaxHistory == 2

CustomSearchParamKey == <<"c", "u", "s", "t", "o", "m", "I", "d">>
CustomStorageKey == <<"c", "u", "s", "t", "o", "m", "-", "k", "e", "y">>

\* The keys of the tab store: each is the watched key under some options and
\* an unrelated key under the others.
StorageKeys == {SESSION_STORAGE_KEY, CustomStorageKey}

\* The key a `storage` event may carry: a key of the store, or null when the
\* store was cleared.
EventKeys == StorageKeys \cup {Null}

\* The options a run may call the hook with: the defaults ('tid', true, false,
\* 'tab-id'), and each option in turn set to another value.
DefaultOptions ==
    [idSearchParamKey |-> SEARCH_PARAM_KEY,
     navigate |-> TRUE,
     reloadDocument |-> FALSE,
     sessionStorageKey |-> SESSION_STORAGE_KEY]

OptionSets ==
    {DefaultOptions,
     [DefaultOptions EXCEPT !.idSearchParamKey = CustomSearchParamKey],
     [DefaultOptions EXCEPT !.navigate = FALSE],
     [DefaultOptions EXCEPT !.navigate = FALSE, !.reloadDocument = TRUE],
     [DefaultOptions EXCEPT !.reloadDocument = TRUE],
     [DefaultOptions EXCEPT !.sessionStorageKey = CustomStorageKey]}

TokenAB == <<"a", "b", "-", "1", "2", "3", "4">>
TokenXY == <<"x", "y", "-", "9", "9", "9", "9">>
TokenXX == <<"x", "x", "-", "9", "9", "9", "9">>
TokenSS == <<"s", "s", "-", "5", "5", "5", "5">>

\* What the watched key may hold when the document loads.
InitialStored == {Null, TokenXY}
\* What an outside writer may store under the watched key.
ExternalValues == {TokenXX}

Q(key, value) == key \o <<"=">> \o value

\* The query strings the document may be opened with.
InitialSearches ==
    {<<>>,
     <<"?">> \o Q(SEARCH_PARAM_KEY, TokenXY),
     <<"?">> \o Q(CustomSearchParamKey, TokenXY),
     <<"?">> \o Q(<<"q">>, <<"a", "%", "2", "0", "b">>) \o <<"&">>
             \o Q(SEARCH_PARAM_KEY, TokenSS) \o <<"&">> \o <<"z">> \o <<"&">>
             \o Q(SEARCH_PARAM_KEY, TokenAB)}

\* The query strings a link inside the application may lead to: a path
\* without a query string, and one with a parameter of its own.
LinkSearches == {<<>>, <<"?">> \o Q(<<"p">>, <<"1">>)}

None == [search |-> Null, replace |-> FALSE]

\* ---------------------------------------------------------------------------
\* Derived values
\* ---------------------------------------------------------------------------

\* The search string of the current location.
CurrentSearch == entries[index]

\* new URLSearchParams(search).get(idSearchParamKey)
idSearchParam(s) == ParamsGet(URLSearchParams(s), options.idSearchParamKey)

\* A variant whose server-side snapshot falls back to the tab store.
getServerSnapshot_ReadsStore(s) ==
    Coalesce(idSearchParam(s), Coalesce(sessionStorage[options.sessionStorageKey], Undefined))

\* The server-side snapshot: idSearchParam ?? undefined.
getServerSnapshot(s) == Coalesce(idSearchParam(s), Undefined)

\* The token under the watched key of the tab store.
Stored == sessionStorage[options.sessionStorageKey]

\* The random outcomes a getSnapshot call can consume: none unless it generates.
NoDraws == <<0, 0, 0, 0, 0, 0>>
DrawsFor(storage) ==
    IF storage[options.sessionStorageKey] = Null THEN RandomDraws ELSE {NoDraws}

\* Router: the search of a navigation target as the location carries it.
normalizeSearch(s) ==
    IF s = <<>> \/ s = <<"?">> THEN <<>>
    ELSE IF Head(s) = "?" THEN s
    ELSE <<"?">> \o s

\* Faulty variants of the effect body.
\* ... navigates whatever the `navigate` option says:
useTabIdEffect_IgnoresNavigate(opts, renderedId, renderedSearch) ==
    LET param == ParamsGet(URLSearchParams(renderedSearch), opts.idSearchParamKey)
    IN IF renderedId # Undefined /\ renderedId # param
       THEN [search |-> ParamsToString(ParamsSet(URLSearchParams(renderedSearch),
                                                 opts.idSearchParamKey, renderedId)),
             replace |-> TRUE]
       ELSE None

\* ... navigates even when the URL already carries the id:
useTabIdEffect_AlwaysNavigates(opts, renderedId, renderedSearch) ==
    IF opts.navigate /\ renderedId # Undefined
    THEN [search |-> ParamsToString(ParamsSet(URLSearchParams(renderedSearch),
                                              opts.idSearchParamKey, renderedId)),
          replace |-> TRUE]
    ELSE None

\* ... navigates only when the URL carries no id at all:
useTabIdEffect_OnlyWhenMissing(opts, renderedId, renderedSearch) ==
    LET param == ParamsGet(URLSearchParams(renderedSearch), opts.idSearchParamKey)
    IN IF opts.navigate /\ renderedId # Undefined /\ param = Null
       THEN [search |-> ParamsToString(ParamsSet(URLSearchParams(renderedSearch),
                                                 opts.idSearchParamKey, renderedId)),
             replace |-> TRUE]
       ELSE None

\* ... builds the new query string from nothing instead of from `search`:
useTabIdEffect_DropsParams(opts, renderedId, renderedSearch) ==
    LET param == ParamsGet(URLSearchParams(renderedSearch), opts.idSearchParamKey)
    IN IF opts.navigate /\ renderedId # Undefined /\ renderedId # param
       THEN [search |-> ParamsToString(ParamsSet(<<>>, opts.idSearchParamKey, renderedId)),
             replace |-> TRUE]
       ELSE None

\* ... pushes a history entry instead of replacing the current one:
useTabIdEffect_Pushes(opts, renderedId, renderedSearch) ==
    LET param == ParamsGet(URLSearchParams(renderedSearch), opts.idSearchParamKey)
    IN IF opts.navigate /\ renderedId # Undefined /\ renderedId # param
       THEN [search |-> ParamsToString(ParamsSet(URLSearchParams(renderedSearch),
                                                 opts.idSearchParamKey, renderedId)),
             replace |-> FALSE]
       ELSE None

\* ... writes the default parameter name instead of the configured one:
useTabIdEffect_WritesDefaultKey(opts, renderedId, renderedSearch) ==
    LET param == ParamsGet(URLSearchParams(renderedSearch), opts.idSearchParamKey)
    IN IF opts.navigate /\ renderedId # Undefined /\ renderedId # param
       THEN [search |-> ParamsToString(ParamsSet(URLSearchParams(renderedSearch),
                                                 SEARCH_PARAM_KEY, renderedId)),
             replace |-> TRUE]
       ELSE None

\* The body of the useEffect for the values of one render: the navigation it
\* asks navigateFn for, or None.
useTabIdEffect(opts, renderedId, renderedSearch) ==
    LET param == ParamsGet(URLSearchParams(renderedSearch), opts.idSearchParamKey)
    IN IF opts.navigate /\ renderedId # Undefined /\ renderedId # param
       THEN [search |-> ParamsToString(ParamsSet(URLSearchParams(renderedSearch),
                                                 opts.idSearchParamKey, renderedId)),
             replace |-> TRUE]
       ELSE None

\* ---------------------------------------------------------------------------
\* Initial states: a document opened in a tab, nothing rendered yet
\* ---------------------------------------------------------------------------

\* How many components call useTabId side by side.
MaxInstances == 2
Instances == 1..MaxInstances

\* A component that is not mounted; no component mounted.
NoPeer ==
    [mounted |-> FALSE, id |-> Undefined, search |-> <<>>, dirty |-> FALSE,
     effectPending |-> FALSE, syncPending |-> FALSE]
NoPeers == [i \in Instances |-> NoPeer]

\* A change of the location re-renders every mounted component that reads it.
LocationChanged(ps) ==
    [i \in Instances |-> IF ps[i].mounted THEN [ps[i] EXCEPT !.dirty = TRUE] ELSE ps[i]]

Loaded ==
    /\ options \in OptionSets
    /\ \E v \in InitialStored :
         sessionStorage =
             [k \in StorageKeys |-> IF k = options.sessionStorageKey THEN v ELSE Null]
    /\ \E s \in InitialSearches : entries = <<s>>
    /\ index = 1
    /\ phase = "none"
    /\ id = Undefined
    /\ search = <<>>
    /\ dirty = FALSE
    /\ effectPending = FALSE
    /\ syncPending = FALSE
    /\ subscribed = FALSE
    /\ nav = None
    /\ thens = FALSE
    /\ event = NoEvent
    /\ budget = MaxExternal
    /\ call = NoCall
    /\ failure = NoFailure
    /\ peers = NoPeers

\* A document whose sessionStorage works.
Init == Loaded /\ storageFault = "none" /\ tally = NoTally

\* ---------------------------------------------------------------------------
\* Rendering (React calling useTabId)
\* ---------------------------------------------------------------------------

\* Rendering on the server: useSyncExternalStore returns the server snapshot;
\* there is no window, no storage and no effect.
ServerRender ==
    /\ phase = "none"
    /\ phase' = "server"
    /\ search' = CurrentSearch
    /\ id' = getServerSnapshot(CurrentSearch)
    /\ event' = NoEvent
    /\ UNCHANGED <<options, call, peers, storageFault, tally, failure,
                   sessionStorage, entries, index, dirty, effectPending,
                   syncPending, subscribed, nav, thens, budget>>

\* Hydrating server-rendered markup: the first client render also returns the
\* server snapshot; its effects are scheduled.
Hydrate ==
    /\ phase = "server"
    /\ phase' = "client"
    /\ search' = CurrentSearch
    /\ id' = getServerSnapshot(CurrentSearch)
    /\ dirty' = FALSE
    /\ effectPending' = TRUE
    /\ syncPending' = TRUE
    /\ event' = NoEvent
    /\ tally' = Restarted(tally)
    /\ UNCHANGED <<options, call, peers, storageFault, failure,
                   sessionStorage, entries, index, subscribed, nav,
                   thens, budget>>

\* The first render of a client-rendered component: useSyncExternalStore
\* returns getSnapshot(sessionStorageKey).
Mount ==
    /\ phase \in {"none", "unmounted"}
    /\ sessionStorageAccess(storageFault) = "ok"
    /\ \E draws \in DrawsFor(sessionStorage) :
         LET snap == getSnapshot(sessionStorage, options.sessionStorageKey, draws)
         IN /\ id' = snap.id
            /\ sessionStorage' = snap.storage
    /\ phase' = "client"
    /\ search' = CurrentSearch
    /\ dirty' = FALSE
    /\ effectPending' = TRUE
    /\ syncPending' = TRUE
    /\ failure' = NoFailure
    /\ tally' = Restarted(tally)
    /\ event' = NoEvent
    /\ UNCHANGED <<options, call, peers, storageFault,
                   entries, index, subscribed, nav, thens,
                   budget>>

\* A later render (scheduled or caused by a parent): the effects of the
\* previous commit have run; the useEffect is scheduled when one of its
\* dependencies (id, search) differs from the previous render's.
Render ==
    /\ phase = "client"
    /\ ~effectPending
    /\ sessionStorageAccess(storageFault) = "ok"
    /\ \E draws \in DrawsFor(sessionStorage) :
         LET snap == getSnapshot(sessionStorage, options.sessionStorageKey, draws)
         IN /\ id' = snap.id
            /\ sessionStorage' = snap.storage
            /\ syncPending' = (snap.id # id \/ CurrentSearch # search)
            /\ failure' = IF failure # NoFailure
                              /\ (snap.id # id \/ CurrentSearch # search)
                           THEN [failure EXCEPT !.stale = TRUE]
                           ELSE failure
            /\ tally' = Tallied(tally, 0, IF snap.id # id \/ CurrentSearch # search
                                          THEN 1 ELSE 0)
    /\ search' = CurrentSearch
    /\ dirty' = FALSE
    /\ effectPending' = TRUE
    /\ event' = NoEvent
    /\ UNCHANGED <<options, call, peers, storageFault,
                   entries, index, phase, subscribed, nav,
                   thens, budget>>

\* The passive effects of a commit, in one task: useSyncExternalStore
\* registers the listener and re-reads the snapshot (a changed snapshot
\* schedules a re-render); then the useEffect of useTabId runs if scheduled.
FlushEffects ==
    /\ phase = "client"
    /\ effectPending
    /\ \E draws \in DrawsFor(sessionStorage) :
         LET check == checkIfSnapshotChanged(storageFault, sessionStorage,
                                             options.sessionStorageKey, draws, id)
         IN /\ sessionStorage' = check.storage
            /\ dirty' = (dirty \/ check.changed)
    /\ subscribed' = TRUE
    /\ LET request == IF syncPending THEN useTabIdEffect(options, id, search)
                      ELSE None
       IN /\ nav' = IF request # None THEN request ELSE nav
          /\ failure' = IF request # None THEN NoFailure ELSE failure
          /\ tally' = Tallied(tally, IF request # None THEN 1 ELSE 0, 0)
    /\ effectPending' = FALSE
    /\ syncPending' = FALSE
    /\ event' = NoEvent
    /\ UNCHANGED <<options, call, peers, storageFault,
                   entries, index, phase, id, search, thens,
                   budget>>

\* ---------------------------------------------------------------------------
\* Router and document
\* ---------------------------------------------------------------------------

\* The router commits the navigation navigateFn was asked for and resolves
\* its promise; a mounted component re-renders with the new location.
NavCommit ==
    /\ nav # None
    /\ nav.replace \/ index < MaxHistory
    /\ IF nav.replace
       THEN /\ entries' = [entries EXCEPT ![index] = normalizeSearch(nav.search)]
            /\ index' = index
       ELSE /\ entries' = SubSeq(entries, 1, index) \o <<normalizeSearch(nav.search)>>
            /\ index' = index + 1
    /\ nav' = None
    /\ thens' = (thens \/ thenChain("fulfilled").callback)
    /\ dirty' = (dirty \/ phase = "client")
    /\ peers' = LocationChanged(peers)
    /\ event' = NoEvent
    /\ UNCHANGED <<options, call, storageFault, tally, failure,
                   sessionStorage, phase, id, search, effectPending,
                   syncPending, subscribed, budget>>

\* The state a document load starts from: the tab keeps its store and its
\* history, everything else is gone.
FreshDocument ==
    /\ phase' = "none"
    /\ id' = Undefined
    /\ search' = <<>>
    /\ dirty' = FALSE
    /\ effectPending' = FALSE
    /\ syncPending' = FALSE
    /\ subscribed' = FALSE
    /\ nav' = None
    /\ thens' = FALSE
    /\ failure' = NoFailure
    /\ tally' = Restarted(tally)
    /\ peers' = NoPeers
    /\ event' = NoEvent
    /\ UNCHANGED <<options, call, storageFault, sessionStorage, entries, index>>

\* The .then() callback of the navigate promise: window.location.reload()
\* when reloadDocument is set.
ThenCallback ==
    /\ thens
    /\ budget' = budget
    /\ IF options.reloadDocument
       THEN FreshDocument
       ELSE /\ thens' = FALSE
            /\ event' = NoEvent
            /\ UNCHANGED <<options, call, peers, storageFault, tally, failure,
                           sessionStorage, entries, index, phase, id,
                           search, dirty, effectPending, syncPending, subscribed,
                           nav>>

\* The user reloads the page.
UserReload ==
    /\ budget > 0
    /\ phase # "none"
    /\ budget' = budget - 1
    /\ FreshDocument

\* The component is removed from the tree: React drops its scheduled work and
\* runs the disposer subscribe returned. A navigation in flight stays in flight.
Unmount ==
    /\ phase = "client"
    /\ phase' = "unmounted"
    /\ id' = Undefined
    /\ search' = <<>>
    /\ dirty' = FALSE
    /\ effectPending' = FALSE
    /\ syncPending' = FALSE
    /\ subscribed' = disposer(subscribed)
    /\ event' = NoEvent
    /\ UNCHANGED <<options, call, peers, storageFault, tally, failure,
                   sessionStorage, entries, index, nav, thens, budget>>

\* ---------------------------------------------------------------------------
\* Storage events
\* ---------------------------------------------------------------------------

\* A `storage` event carrying `key` is dispatched on window, with the
\* component rendered or torn down. It reaches the listener if one is
\* registered. When the listener invokes the callback, React re-reads the
\* snapshot and, for a mounted component, schedules a re-render if it differs
\* from the rendered value.
Notify(key) ==
    /\ phase \in {"client", "unmounted"}
    /\ IF subscribed /\ handler(options.sessionStorageKey, key)
       THEN \E draws \in DrawsFor(sessionStorage) :
              LET check == checkIfSnapshotChanged(storageFault, sessionStorage,
                                                  options.sessionStorageKey, draws, id)
              IN /\ sessionStorage' = check.storage
                 /\ dirty' = (phase = "client" /\ (dirty \/ check.changed))
       ELSE UNCHANGED <<sessionStorage, dirty>>
    /\ event' = key
    /\ UNCHANGED <<options, call, peers, storageFault, tally, failure,
                   entries, index, phase, id, search, effectPending,
                   syncPending, subscribed, nav, thens, budget>>

\* ---------------------------------------------------------------------------
\* Changes from outside the hook
\* ---------------------------------------------------------------------------

\* Another script writes the watched key.
ExternalSetItem(value) ==
    /\ budget > 0
    /\ value # Stored
    /\ sessionStorage' = [sessionStorage EXCEPT ![options.sessionStorageKey] = value]
    /\ budget' = budget - 1
    /\ event' = NoEvent
    /\ UNCHANGED <<options, call, peers, storageFault, tally, failure,
                   entries, index, phase, id, search, dirty, effectPending,
                   syncPending, subscribed, nav, thens>>

\* Another script removes the watched key.
ExternalRemoveItem ==
    /\ budget > 0
    /\ Stored # Null
    /\ sessionStorage' = [sessionStorage EXCEPT ![options.sessionStorageKey] = Null]
    /\ budget' = budget - 1
    /\ event' = NoEvent
    /\ UNCHANGED <<options, call, peers, storageFault, tally, failure,
                   entries, index, phase, id, search, dirty, effectPending,
                   syncPending, subscribed, nav, thens>>

\* The user follows a link inside the application: a new history entry. A
\* navigation still in flight is abandoned by the router without being
\* committed; its promise resolves all the same.
LinkNavigate(target) ==
    /\ budget > 0
    /\ phase = "client"
    /\ index < MaxHistory
    /\ entries' = SubSeq(entries, 1, index) \o <<target>>
    /\ index' = index + 1
    /\ nav' = None
    /\ thens' = (thens \/ nav # None)
    /\ dirty' = TRUE
    /\ budget' = budget - 1
    /\ event' = NoEvent
    /\ UNCHANGED <<options, call, peers, storageFault, tally, failure,
                   sessionStorage, phase, id, search, effectPending,
                   syncPending, subscribed>>

\* The user goes back or forward in the history; a navigation still in flight
\* is abandoned as by a link.
HistoryGo(delta) ==
    /\ budget > 0
    /\ phase = "client"
    /\ index + delta \in 1..Len(entries)
    /\ index' = index + delta
    /\ nav' = None
    /\ thens' = (thens \/ nav # None)
    /\ dirty' = TRUE
    /\ budget' = budget - 1
    /\ event' = NoEvent
    /\ UNCHANGED <<options, call, peers, storageFault, tally, failure,
                   sessionStorage, entries, phase, id, search,
                   effectPending, syncPending, subscribed>>

\* ---------------------------------------------------------------------------
\* Specification
\* ---------------------------------------------------------------------------

Next ==
    \/ ServerRender
    \/ Hydrate
    \/ Mount
    \/ Render
    \/ FlushEffects
    \/ NavCommit
    \/ ThenCallback
    \/ UserReload
    \/ Unmount
    \/ \E key \in EventKeys : Notify(key)
    \/ \E value \in ExternalValues : ExternalSetItem(value)
    \/ ExternalRemoveItem
    \/ \E target \in LinkSearches : LinkNavigate(target)
    \/ \E delta \in {-1, 1} : HistoryGo(delta)

Spec == Init /\ [][Next]_vars

\* The scheduling the runtime guarantees: a scheduled re-render is rendered,
\* scheduled effects are flushed, the router completes a navigation it was
\* asked for, and a resolved promise runs its callback.
Fairness ==
    /\ WF_vars(dirty /\ Render)
    /\ WF_vars(FlushEffects)
    /\ WF_vars(NavCommit)
    /\ WF_vars(ThenCallback)

\* The runs the progress properties are checked on: the default options and
\* each switch (navigate, reloadDocument) flipped, a document opened without
\* a query string or with a token in it.
LiveInit ==
    /\ Init
    /\ options \in {DefaultOptions,
                    [DefaultOptions EXCEPT !.navigate = FALSE],
                    [DefaultOptions EXCEPT !.reloadDocument = TRUE]}
    /\ entries \in {<<<<>>>>, <<<<"?">> \o Q(SEARCH_PARAM_KEY, TokenXY)>>}

LiveSpec == LiveInit /\ [][Next]_vars /\ Fairness

\* ---------------------------------------------------------------------------
\* Faults: a navigation that fails, a sessionStorage that raises
\* ---------------------------------------------------------------------------

\* The effect calls navigateFn and the call raises: nothing catches it in the
\* effect, no promise exists to chain on, and React tears the component down
\* with the exception. The effects of useSyncExternalStore of the same commit
\* have run before.
NavigateThrows ==
    /\ phase = "client"
    /\ effectPending /\ syncPending
    /\ useTabIdEffect(options, id, search) # None
    /\ \E draws \in DrawsFor(sessionStorage) :
         LET check == checkIfSnapshotChanged(storageFault, sessionStorage,
                                             options.sessionStorageKey, draws, id)
         IN sessionStorage' = check.storage
    /\ failure' = [kind |-> "thrown", surfaced |-> TRUE, stale |-> FALSE]
    /\ phase' = "unmounted"
    /\ id' = Undefined
    /\ search' = <<>>
    /\ dirty' = FALSE
    /\ effectPending' = FALSE
    /\ syncPending' = FALSE
    /\ subscribed' = disposer(TRUE)
    /\ event' = NoEvent
    /\ tally' = Tallied(tally, 1, 0)
    /\ UNCHANGED <<options, call, peers, storageFault, entries, index, nav, thens, budget>>

\* The router fails the navigation navigateFn asked for: the location stays,
\* the navigate promise rejects and the chain on it settles.
NavigateRejects ==
    /\ nav # None
    /\ LET chain == thenChain("rejected")
       IN /\ thens' = (thens \/ chain.callback)
          /\ failure' = [kind |-> "rejected", surfaced |-> chain.unhandled,
                         stale |-> effectPending /\ syncPending]
    /\ nav' = None
    /\ event' = NoEvent
    /\ UNCHANGED <<options, call, peers, storageFault, tally,
                   sessionStorage, entries, index, phase, id,
                   search, dirty, effectPending, syncPending, subscribed, budget>>

\* The first render of a client-rendered component when sessionStorage
\* raises: getSnapshot ends with the exception, useTabId returns nothing and
\* the component does not mount.
MountThrows ==
    /\ phase \in {"none", "unmounted"}
    /\ sessionStorageAccess(storageFault) = "throws"
    /\ failure' = [kind |-> "storage", surfaced |-> TRUE, stale |-> FALSE]
    /\ phase' = "unmounted"
    /\ id' = Undefined
    /\ search' = <<>>
    /\ dirty' = FALSE
    /\ effectPending' = FALSE
    /\ syncPending' = FALSE
    /\ event' = NoEvent
    /\ UNCHANGED <<options, call, peers, storageFault, tally,
                   sessionStorage, entries, index, subscribed,
                   nav, thens, budget>>

\* A later render when sessionStorage raises (the render React schedules
\* after hydration included): getSnapshot ends with the exception and React
\* tears the component down.
RenderThrows ==
    /\ phase = "client"
    /\ ~effectPending
    /\ sessionStorageAccess(storageFault) = "throws"
    /\ failure' = [kind |-> "storage", surfaced |-> TRUE, stale |-> FALSE]
    /\ phase' = "unmounted"
    /\ id' = Undefined
    /\ search' = <<>>
    /\ dirty' = FALSE
    /\ effectPending' = FALSE
    /\ syncPending' = FALSE
    /\ subscribed' = disposer(subscribed)
    /\ event' = NoEvent
    /\ UNCHANGED <<options, call, peers, storageFault, tally,
                   sessionStorage, entries, index, nav, thens,
                   budget>>

\* The runs with faults: the options of LiveInit, a document opened without a
\* query string or with a token in it, a sessionStorage that works or raises.
FaultInit ==
    /\ Loaded
    /\ options \in {DefaultOptions,
                    [DefaultOptions EXCEPT !.navigate = FALSE],
                    [DefaultOptions EXCEPT !.reloadDocument = TRUE]}
    /\ entries \in {<<<<>>>>, <<<<"?">> \o Q(SEARCH_PARAM_KEY, TokenXY)>>}
    /\ storageFault \in {"none"} \cup StorageFaults
    /\ tally = NoTally

FaultNext ==
    \/ Next
    \/ NavigateThrows
    \/ NavigateRejects
    \/ MountThrows
    \/ RenderThrows

FaultSpec == FaultInit /\ [][FaultNext]_vars

\* ---------------------------------------------------------------------------
\* Runs that count navigations
\* ---------------------------------------------------------------------------

\* The runs in which the calls of navigateFn are counted: navigate enabled,
\* with and without reloadDocument, a document opened without a query string
\* or with a token in it.
CountInit ==
    /\ Loaded
    /\ options \in {DefaultOptions, [DefaultOptions EXCEPT !.reloadDocument = TRUE]}
    /\ entries \in {<<<<>>>>, <<<<"?">> \o Q(SEARCH_PARAM_KEY, TokenXY)>>}
    /\ storageFault = "none"
    /\ tally = ZeroTally

CountSpec == CountInit /\ [][Next]_vars

\* ---------------------------------------------------------------------------
\* Several components calling useTabId in one tab
\* ---------------------------------------------------------------------------

\* Component i renders for the first time: its useSyncExternalStore returns
\* getSnapshot(sessionStorageKey) on the store all components share.
PeerMount(i) ==
    /\ ~peers[i].mounted
    /\ \E draws \in DrawsFor(sessionStorage) :
         LET snap == getSnapshot(sessionStorage, options.sessionStorageKey, draws)
         IN /\ peers' = [peers EXCEPT ![i] =
                           [mounted |-> TRUE, id |-> snap.id, search |-> CurrentSearch,
                            dirty |-> FALSE, effectPending |-> TRUE,
                            syncPending |-> TRUE]]
            /\ sessionStorage' = snap.storage
    /\ event' = NoEvent
    /\ UNCHANGED <<options, call, storageFault, failure, tally, entries, index, phase, id,
                   search, dirty, effectPending, syncPending, subscribed, nav, thens,
                   budget>>

\* Component i renders again, after its effects have run.
PeerRender(i) ==
    /\ peers[i].mounted
    /\ ~peers[i].effectPending
    /\ \E draws \in DrawsFor(sessionStorage) :
         LET snap == getSnapshot(sessionStorage, options.sessionStorageKey, draws)
         IN /\ peers' = [peers EXCEPT ![i] =
                           [mounted |-> TRUE, id |-> snap.id, search |-> CurrentSearch,
                            dirty |-> FALSE, effectPending |-> TRUE,
                            syncPending |-> (snap.id # peers[i].id
                                             \/ CurrentSearch # peers[i].search)]]
            /\ sessionStorage' = snap.storage
    /\ event' = NoEvent
    /\ UNCHANGED <<options, call, storageFault, failure, tally, entries, index, phase, id,
                   search, dirty, effectPending, syncPending, subscribed, nav, thens,
                   budget>>

\* The passive effects of component i: the snapshot is re-read, then the
\* useEffect of its useTabId runs if scheduled; a navigation it asks for
\* takes the place of one another component asked for and that is in flight.
PeerFlushEffects(i) ==
    /\ peers[i].mounted
    /\ peers[i].effectPending
    /\ \E draws \in DrawsFor(sessionStorage) :
         LET check == checkIfSnapshotChanged(storageFault, sessionStorage,
                                             options.sessionStorageKey, draws,
                                             peers[i].id)
         IN /\ sessionStorage' = check.storage
            /\ peers' = [peers EXCEPT ![i].dirty = (@ \/ check.changed),
                                      ![i].effectPending = FALSE,
                                      ![i].syncPending = FALSE]
    /\ LET request == IF peers[i].syncPending
                      THEN useTabIdEffect(options, peers[i].id, peers[i].search)
                      ELSE None
       IN nav' = IF request # None THEN request ELSE nav
    /\ event' = NoEvent
    /\ UNCHANGED <<options, call, storageFault, failure, tally, entries, index, phase, id,
                   search, dirty, effectPending, syncPending, subscribed, thens,
                   budget>>

\* The runs of several components: every pair of keys, navigate enabled, any
\* initial URL, an empty or a filled store; no component mounted yet.
PeersInit ==
    /\ Init
    /\ options.navigate /\ ~options.reloadDocument

PeersNext ==
    \/ \E i \in Instances : PeerMount(i)
    \/ \E i \in Instances : PeerRender(i)
    \/ \E i \in Instances : PeerFlushEffects(i)
    \/ NavCommit
    \/ ThenCallback

PeersSpec == PeersInit /\ [][PeersNext]_vars

\* ---------------------------------------------------------------------------
\* Vocabulary of the properties
\* ---------------------------------------------------------------------------

Mounted == phase = "client"

\* The value the current URL binds to idSearchParamKey (Null when it has none).
UrlToken == idSearchParam(CurrentSearch)

\* Every token generateId can return under the modelled random outcomes.
GeneratedIds == {generateId(draws) : draws \in RandomDraws}

\* The states of the URL synchroniser.
SyncState ==
    IF id = Undefined THEN "UNRESOLVED"
    ELSE IF id # UrlToken THEN "URL_BEHIND"
    ELSE "SYNCED"

\* Steps taken by something other than the hook and its runtime.
StoreExternal == (\E value \in ExternalValues : ExternalSetItem(value)) \/ ExternalRemoveItem
UrlExternal == (\E target \in LinkSearches : LinkNavigate(target)) \/ (\E delta \in {-1, 1} : HistoryGo(delta))
External == StoreExternal \/ UrlExternal \/ UserReload

\* Nothing of the hook is scheduled or in flight.
Idle == ~dirty /\ ~effectPending /\ nav = None

\* The render that resolves the token client-side: a mount or a re-render
\* (both schedule the effects; hydration does so from server markup).
ClientRenderStep == ~effectPending /\ effectPending' /\ phase # "server"

\* The flush of a commit's passive effects that leaves the hook mounted.
FlushStep == effectPending /\ ~effectPending' /\ phase' = "client"

\* navigateFn is called with a new request.
NavigateCalled == nav' # nav /\ nav' # None

\* The router commits the navigation navigateFn asked for.
CorrectionCommitted == nav # None /\ nav' = None /\ budget' = budget /\ phase' = phase

\* The current location changes.
UrlChanged == entries' # entries \/ index' # index

\* Query strings that occur as corrected URLs.
SearchOf(pairs) == normalizeSearch(ParamsToString(pairs))

\* ---------------------------------------------------------------------------
\* C1  URL and store agree once reconciliation has completed
\* ---------------------------------------------------------------------------

\* C1: with navigate enabled, a mounted hook that returns the stored token and
\* has nothing outstanding (no re-render scheduled, no effect to flush, no
\* navigation in flight) has brought the URL's value for idSearchParamKey to
\* the stored token: URL and store differ only in the window between the
\* resolution of the token and the commit of the correcting navigation.
C1_UrlEqualsStoreOutsideWindow ==
    (Mounted /\ options.navigate /\ id = Stored /\ Idle) => UrlToken = Stored

\* ---------------------------------------------------------------------------
\* C2  The store wins over the URL
\* ---------------------------------------------------------------------------

\* C2: the tab store is never written with a value taken from the URL. Every
\* write that is not an outside write fills the empty watched key with a
\* generated token and touches no other key; and every navigation the hook
\* asks for binds idSearchParamKey to the id the hook returned, which after
\* that effect flush is the stored token unless a re-render is scheduled.
C2_StoreNeverWrittenFromUrl ==
    [][ /\ (sessionStorage' # sessionStorage /\ ~StoreExternal)
            => /\ Stored = Null
               /\ Stored' \in GeneratedIds
               /\ \A k \in StorageKeys \ {options.sessionStorageKey} :
                      sessionStorage'[k] = sessionStorage[k]
        /\ NavigateCalled
            => /\ ParamsGet(URLSearchParams(nav'.search), options.idSearchParamKey) = id
               /\ (Stored' = id \/ dirty')
      ]_vars

\* C2 witness: the document was opened with a token seeded in the URL and an
\* empty store; the store holds a generated token, the URL has been corrected
\* to it, and no outside change took place.
C2_SeedSuperseded ==
    /\ Mounted /\ Idle /\ budget = MaxExternal
    /\ Stored = generateId(NoDraws) /\ id = Stored
    /\ entries = <<SearchOf(<< <<<<"q">>, <<"a", " ", "b">>>>,
                               <<SEARCH_PARAM_KEY, generateId(NoDraws)>>,
                               <<<<"z">>, <<>>>> >>)>>

\* ---------------------------------------------------------------------------
\* C3  getSnapshot is idempotent and never overwrites
\* ---------------------------------------------------------------------------

\* C3: a stored value changes only by an outside write; a client render on an
\* empty store generates one token, stores it and returns it; a client render
\* on a store that holds a value returns that value and leaves it stored.
C3_SnapshotIdempotent ==
    [][ /\ (Stored # Null /\ Stored' # Stored) => StoreExternal
        /\ ClientRenderStep
            => /\ id' = Stored'
               /\ IF Stored = Null THEN Stored' \in GeneratedIds
                  ELSE Stored' = Stored
      ]_vars

\* C3 witness: with reloadDocument set and no outside change, the token
\* generated on the first render has gone through the re-render after the
\* correction and through the document reload that followed it; the hook
\* mounted in the reloaded document returns that same token.
C3_SameTokenAfterReload ==
    /\ options.reloadDocument /\ options.navigate
    /\ Mounted /\ Idle /\ ~thens /\ budget = MaxExternal
    /\ id = generateId(NoDraws) /\ Stored = id
    /\ entries = <<SearchOf(<< <<SEARCH_PARAM_KEY, generateId(NoDraws)>> >>)>>

\* ---------------------------------------------------------------------------
\* C4  navigate: false
\* ---------------------------------------------------------------------------

\* C4: with navigate set to false the navigation function is never called, no
\* navigate promise ever resolves (so no reload is triggered), the location
\* changes only by an outside navigation, and, as long as nothing was changed
\* from outside, a mounted hook that is at URL_BEHIND stays there.
C4_NoUrlMutationWithoutNavigate ==
    [][ ~options.navigate
          => /\ nav' = None
             /\ ~thens'
             /\ UrlChanged => UrlExternal
             /\ (budget' = MaxExternal /\ Mounted /\ Mounted'
                 /\ SyncState = "URL_BEHIND") => SyncState' = "URL_BEHIND"
      ]_vars

\* C4 witness: navigate is false, the store was overwritten from outside and
\* the hook has rendered the new token after a notification or re-render;
\* nothing is scheduled or in flight and the URL is that of the first entry,
\* still without the token.
C4_StaysBehind ==
    /\ ~options.navigate /\ options.reloadDocument
    /\ Mounted /\ subscribed /\ Idle /\ ~thens
    /\ id = TokenXX /\ Stored = TokenXX
    /\ entries = <<<<>>>>
    /\ SyncState = "URL_BEHIND"

\* ---------------------------------------------------------------------------
\* C5  No navigation when the URL already carries the token
\* ---------------------------------------------------------------------------

\* C5: an effect flush of a render whose URL token equals the returned id
\* asks for no navigation; navigateFn is called only with navigate enabled
\* and a defined id that differs from the rendered URL's token; the location
\* changes only by an outside navigation or by the commit of a navigation
\* that was asked for; and a promise resolves (the only way to a reload) only
\* for a navigation that was asked for.
C5_NoNavigationWhenSynced ==
    [][ /\ NavigateCalled
            => /\ options.navigate
               /\ id # Undefined
               /\ id # idSearchParam(search)
        /\ (UrlChanged /\ ~UrlExternal)
            => /\ nav # None
               /\ index' = index
               /\ CurrentSearch' = normalizeSearch(nav.search)
        /\ (thens' /\ ~thens) => nav # None
        /\ (FlushStep /\ id = idSearchParam(search)) => nav' = nav
      ]_vars

\* C5 witness: store and URL were opened with the same token; the hook has
\* rendered, its effects have run, and nothing is in flight: the search string
\* is the original one.
C5_AlreadySynced ==
    /\ options = DefaultOptions
    /\ Mounted /\ subscribed /\ Idle /\ ~thens /\ budget = MaxExternal
    /\ id = TokenXY /\ Stored = TokenXY
    /\ search = <<"?">> \o Q(SEARCH_PARAM_KEY, TokenXY)
    /\ entries = <<search>>

\* ---------------------------------------------------------------------------
\* C6  A correction keeps the other query parameters
\* ---------------------------------------------------------------------------

\* The raw name=value pieces of a query string, in order, without the pieces
\* that bind `name` and without empty pieces.
RECURSIVE RawOthersFrom(_, _, _)
RawOthersFrom(pieces, name, i) ==
    IF i > Len(pieces) THEN <<>>
    ELSE IF pieces[i] = <<>> \/ ParsePair(pieces[i])[1] = name
         THEN RawOthersFrom(pieces, name, i + 1)
    ELSE <<pieces[i]>> \o RawOthersFrom(pieces, name, i + 1)

RawOthers(s, name) ==
    Eval(Split(IF s # <<>> /\ s[1] = "?" THEN Tail(s) ELSE s, "&"),
         LAMBDA pieces : RawOthersFrom(pieces, name, 1))

\* C6 (as stated): the query string a correction asks for has every other
\* parameter of the rendered query string with the same encoded text, in the
\* same order.
C6_SameEncodedText ==
    [][ NavigateCalled
          => RawOthers(nav'.search, options.idSearchParamKey)
               = RawOthers(search, options.idSearchParamKey)
      ]_vars

\* C6 (amended): the query string a correction asks for has every other
\* parameter of the rendered query string with the same decoded name, the
\* same decoded value and the same order, and is written in the serialiser's
\* canonical encoding; the commit of the correction puts exactly that query
\* string into the current history entry.
C6_OtherParamsKeptDecoded ==
    [][ /\ NavigateCalled
            => /\ ParamsWithout(URLSearchParams(nav'.search), options.idSearchParamKey)
                    = ParamsWithout(URLSearchParams(search), options.idSearchParamKey)
               /\ nav'.search = ParamsToString(URLSearchParams(nav'.search))
        /\ CorrectionCommitted
            => /\ index' = index
               /\ CurrentSearch' = normalizeSearch(nav.search)
      ]_vars

\* C6 witness: the document was opened with ?q=a%20b&tid=ss-5555&z&tid=ab-1234
\* and a stored token; the correction has been committed, and the URL reads
\* ?q=a+b&tid=xy-9999&z=.
C6_CorrectedAmongOthers ==
    /\ Mounted /\ nav = None /\ Stored = TokenXY
    /\ entries = <<SearchOf(<< <<<<"q">>, <<"a", " ", "b">>>>,
                               <<SEARCH_PARAM_KEY, TokenXY>>,
                               <<<<"z">>, <<>>>> >>)>>

\* ---------------------------------------------------------------------------
\* C7  Corrections replace the current history entry
\* ---------------------------------------------------------------------------

\* C7: every navigation the hook asks for is a replace; its commit leaves the
\* length of the history stack, the current index and every other entry as
\* they were; the stack grows and the index moves only by outside navigation.
C7_ReplaceNotPush ==
    [][ /\ NavigateCalled => nav'.replace
        /\ CorrectionCommitted
            => /\ Len(entries') = Len(entries)
               /\ index' = index
               /\ \A i \in 1..Len(entries) : i # index => entries'[i] = entries[i]
        /\ (Len(entries') # Len(entries) \/ index' # index) => UrlExternal
      ]_vars

\* C7 witness: after an outside overwrite of the store the URL of the only
\* history entry has been corrected again, to the new token.
C7_ResyncedInPlace ==
    /\ Mounted /\ Idle /\ options.navigate
    /\ budget = MaxExternal - 1
    /\ Stored = TokenXX /\ id = TokenXX
    /\ Len(entries) = 1 /\ index = 1
    /\ UrlToken = TokenXX

\* ---------------------------------------------------------------------------
\* C8  Custom idSearchParamKey
\* ---------------------------------------------------------------------------

\* params.getAll(name): every value bound to name, in order.
RECURSIVE ParamsGetAllFrom(_, _, _)
ParamsGetAllFrom(params, name, i) ==
    IF i > Len(params) THEN <<>>
    ELSE IF params[i][1] = name
         THEN <<params[i][2]>> \o ParamsGetAllFrom(params, name, i + 1)
    ELSE ParamsGetAllFrom(params, name, i + 1)

ParamsGetAll(params, name) == Eval(params, LAMBDA p : ParamsGetAllFrom(p, name, 1))

\* C8: with a custom idSearchParamKey a correction is asked for only when the
\* id differs from the value the rendered URL binds to the custom key, the
\* query string asked for binds the custom key to the id exactly once, and
\* its bindings of the default key 'tid' are those of the rendered URL.
C8_CustomKeyUsed ==
    [][ (options.idSearchParamKey # SEARCH_PARAM_KEY /\ NavigateCalled)
          => /\ id # ParamsGet(URLSearchParams(search), options.idSearchParamKey)
             /\ ParamsGetAll(URLSearchParams(nav'.search), options.idSearchParamKey)
                  = <<id>>
             /\ ParamsGetAll(URLSearchParams(nav'.search), SEARCH_PARAM_KEY)
                  = ParamsGetAll(URLSearchParams(search), SEARCH_PARAM_KEY)
      ]_vars

\* C8 witness: the document was opened with ?tid=xy-9999 and an empty store
\* under the custom key 'customId'; the corrected URL keeps tid=xy-9999 and
\* carries the generated token under customId.
C8_CustomKeyCorrected ==
    /\ options.idSearchParamKey = CustomSearchParamKey
    /\ Mounted /\ Idle
    /\ Stored = generateId(NoDraws) /\ id = Stored
    /\ entries = <<SearchOf(<< <<SEARCH_PARAM_KEY, TokenXY>>,
                               <<CustomSearchParamKey, generateId(NoDraws)>> >>)>>

\* ---------------------------------------------------------------------------
\* C9  The listener reacts to the watched key only
\* ---------------------------------------------------------------------------

\* C9: while the listener is registered, a storage event whose key is the
\* watched key makes the snapshot be
\* re-derived (an empty store is filled, and a re-render is scheduled when
\* the stored token is not the rendered id); a storage event with any other
\* key, the null key included, changes nothing: nothing is re-derived,
\* nothing is scheduled and no navigation is asked for.
C9_ListenerFiltersByKey ==
    [][ (subscribed /\ event' # NoEvent)
          => IF event' = options.sessionStorageKey
             THEN /\ Stored' # Null
                  /\ dirty' = (dirty \/ Stored' # id)
             ELSE UNCHANGED <<sessionStorage, dirty, effectPending, syncPending,
                              id, search, nav, thens, entries, index>>
      ]_vars

\* C9 witness: the store was overwritten from outside, no re-render is
\* scheduled, and the listener has just received the event of a clear (null
\* key): the hook still returns the old token.
C9_UnrelatedEventIgnored ==
    /\ Mounted /\ subscribed /\ event = Null
    /\ ~dirty /\ ~effectPending
    /\ Stored = TokenXX /\ id # Stored

\* ---------------------------------------------------------------------------
\* C10  Re-synchronisation after an outside overwrite
\* ---------------------------------------------------------------------------

\* The listener has just received the event of an outside overwrite of the
\* watched key while the hook was SYNCED: the URL carries the rendered id,
\* the store holds another token, and a re-render is scheduled.
OverwriteNotified ==
    /\ Mounted /\ subscribed /\ event = options.sessionStorageKey
    /\ Stored # Null /\ Stored # id /\ dirty
    /\ id = UrlToken

\* The hook returns the stored token and, with navigate enabled, the URL
\* carries it and no navigation is in flight.
Resynced ==
    /\ Mounted /\ id = Stored
    /\ options.navigate => (nav = None /\ UrlToken = Stored)

\* C10: under the runtime's scheduling, once the listener has been notified of
\* an outside overwrite made while SYNCED, the hook comes to return the new
\* stored token and, with navigate enabled, to carry it in the URL, unless the
\* store or the URL is changed from outside again or the hook is unmounted
\* first.
C10_ResyncAfterOverwrite ==
    \A n \in 0..(MaxExternal - 1) :
        (OverwriteNotified /\ budget = n) ~> (Resynced \/ budget # n \/ ~Mounted)

\* C10 witness: the document was opened SYNCED on xy-9999; after one outside
\* overwrite the hook returns xx-9999, the only history entry reads
\* ?tid=xx-9999 and the promise of that correction has resolved.
C10_ResyncedToNewToken ==
    /\ options = DefaultOptions
    /\ Mounted /\ subscribed /\ nav = None /\ thens
    /\ budget = MaxExternal - 1
    /\ Stored = TokenXX /\ id = TokenXX
    /\ entries = <<<<"?">> \o Q(SEARCH_PARAM_KEY, TokenXX)>>

\* ---------------------------------------------------------------------------
\* C11  Reload only after a completed correction
\* ---------------------------------------------------------------------------

\* The hook calls window.location.reload(): the document goes away without
\* the user having asked for it.
HookReload == phase # "none" /\ phase' = "none" /\ budget' = budget

\* C11 (as stated): the hook reloads the document only with reloadDocument
\* set and only from the callback of a resolved navigate promise, and with
\* reloadDocument set such a promise resolves only in the step that commits
\* the correcting navigation it belongs to: no reload without a completed
\* correction.
C11_ReloadOnlyAfterCompletedCorrection ==
    [][ /\ HookReload => (options.reloadDocument /\ thens)
        /\ (options.reloadDocument /\ thens' /\ ~thens)
            => /\ CorrectionCommitted
               /\ CurrentSearch' = normalizeSearch(nav.search)
      ]_vars

\* ---------------------------------------------------------------------------
\* C12  Completion of a navigation after unmount
\* ---------------------------------------------------------------------------

\* C12 (as stated): when a correcting navigation completes after the
\* component was unmounted, nothing more happens: with reloadDocument set no
\* reload callback is left to run, and the hook never reloads the document
\* while it is not mounted.
C12_NoReloadAfterUnmount ==
    [][ /\ (phase = "unmounted" /\ CorrectionCommitted)
            => ~(options.reloadDocument /\ thens')
        /\ HookReload => phase = "client"
      ]_vars

\* ---------------------------------------------------------------------------
\* C13  The disposer removes the listener
\* ---------------------------------------------------------------------------

\* C13: once the component is torn down the listener is no longer registered,
\* and a storage event, whatever its key, changes nothing: the snapshot is not
\* re-derived (an empty store stays empty) and nothing is scheduled; running
\* the disposer again leaves the registration as the first run left it.
C13_DisposerRemovesListener ==
    [][ /\ phase' = "unmounted"
            => /\ ~subscribed'
               /\ disposer(subscribed') = subscribed'
        /\ (phase = "unmounted" /\ event' # NoEvent)
            => UNCHANGED <<sessionStorage, dirty, effectPending, syncPending,
                           id, search, nav, thens, entries, index, phase>>
      ]_vars

\* C13 witness: the listener had been registered; after teardown the watched
\* key was removed from outside and the event for it has just been
\* dispatched: the store is still empty.
C13_EventAfterTeardownIgnored ==
    /\ phase = "unmounted" /\ ~subscribed
    /\ event = options.sessionStorageKey
    /\ Stored = Null

\* ---------------------------------------------------------------------------
\* The exported functions, called directly (server/get-tab-id.ts, generateId)
\* ---------------------------------------------------------------------------

\* new URL(url).searchParams is parsed from the URL's query: what lies
\* between the first "?" and the fragment.
UrlQuery(url) ==
    LET hash == IndexOf(url, "#", 1)
        end == IF hash = 0 THEN Len(url) ELSE hash - 1
        mark == IndexOf(url, "?", 1)
    IN IF mark = 0 \/ mark > end THEN <<>> ELSE SubSeq(url, mark + 1, end)

\* Faulty variants of getTabId: one that returns the last value bound to the
\* key, one that always reads the default key.
getTabId_LastValue(url, paramKey) ==
    LET key == IF paramKey = Undefined THEN SEARCH_PARAM_KEY ELSE paramKey
        all == ParamsGetAll(URLSearchParams(UrlQuery(url)), key)
    IN IF all = <<>> THEN Undefined ELSE all[Len(all)]

getTabId_IgnoresParamKey(url, paramKey) ==
    Coalesce(ParamsGet(URLSearchParams(UrlQuery(url)), SEARCH_PARAM_KEY), Undefined)

\* getTabId(request, options) on request.url and options?.paramKey (Undefined
\* when the caller gives no options or no paramKey).
getTabId(url, paramKey) ==
    LET key == IF paramKey = Undefined THEN SEARCH_PARAM_KEY ELSE paramKey
    IN Coalesce(ParamsGet(URLSearchParams(UrlQuery(url)), key), Undefined)

\* The most parameters a request URL is built with.
MaxParams == 3

\* What request URLs are built from: names, values (one that needs encoding),
\* and a fragment that may itself look like a binding of the key.
RequestNames == {SEARCH_PARAM_KEY, CustomSearchParamKey, <<"q">>}
RequestValues == {TokenAB, TokenXY, <<"a", " ", "b">>}
RequestParams ==
    UNION {[1..n -> RequestNames \X RequestValues] : n \in 0..MaxParams}
Fragments == {<<>>, <<"#">> \o Q(SEARCH_PARAM_KEY, TokenXX)}
Origin == <<"h", "t", "t", "p", ":", "/", "/", "h", "/">>

\* The URL of a request that embeds the pairs, each name and value encoded.
RequestUrl(pairs, fragment) ==
    Origin \o (IF pairs = <<>> THEN <<>> ELSE <<"?">> \o ParamsToString(pairs))
           \o fragment

\* The paramKey a caller may pass: none, the default, a custom one, and one
\* that no request embeds.
ParamKeys == {Undefined, SEARCH_PARAM_KEY, CustomSearchParamKey, <<"z">>}

\* A loader calls getTabId on a request (one direct call per run).
CallGetTabId ==
    /\ call = NoCall
    /\ \E pairs \in RequestParams, fragment \in Fragments, paramKey \in ParamKeys :
         call' = [fn |-> "getTabId",
                  embedded |-> pairs,
                  url |-> RequestUrl(pairs, fragment),
                  paramKey |-> paramKey,
                  result |-> getTabId(RequestUrl(pairs, fragment), paramKey)]
    /\ UNCHANGED <<options, peers, storageFault, failure, tally,
                   sessionStorage, entries, index, phase, id, search,
                   dirty, effectPending, syncPending, subscribed, nav, thens,
                   event, budget>>

\* Math.random() returns a number in [0, 1): the values explored are these
\* numerators over RandomDenominator, the smallest, a small one and the largest.
RandomDenominator == 1000
RandomValues == {0, 20, 999}

\* Math.floor(Math.random() * allowedChars.length)
randomIndex(random, length) == (random * length) \div RandomDenominator

\* The six indexes one run of generateId draws: two into the letters, four
\* into the digits.
DrawsOf(randoms) ==
    [i \in 1..6 |-> randomIndex(randoms[i], IF i <= 2 THEN Len(Letters) ELSE Len(Digits))]

\* A caller calls generateId, and may call it once more right after: the
\* record of the second call keeps the draws and the result of the first.
CallGenerateId ==
    /\ call = NoCall \/ (call.fn = "generateId" /\ call.previous = NoCall)
    /\ \E randoms \in [1..6 -> RandomValues] :
         call' = [fn |-> "generateId",
                  random |-> randoms,
                  draws |-> DrawsOf(randoms),
                  result |-> generateId(DrawsOf(randoms)),
                  previous |-> IF call = NoCall THEN NoCall
                               ELSE [draws |-> call.draws, result |-> call.result]]
    /\ UNCHANGED <<options, peers, storageFault, failure, tally,
                   sessionStorage, entries, index, phase, id, search,
                   dirty, effectPending, syncPending, subscribed, nav, thens,
                   event, budget>>

\* The runs in which the exported functions are called directly, on a tab as
\* it was opened; the hook may render once, on the empty store.
FnInit ==
    /\ Init
    /\ options = DefaultOptions
    /\ Stored = Null
    /\ entries = <<<<>>>>

FnNext ==
    \/ CallGetTabId
    \/ CallGenerateId
    \/ Mount

FnSpec == FnInit /\ [][FnNext]_vars

\* ---------------------------------------------------------------------------
\* C14  getTabId
\* ---------------------------------------------------------------------------

\* C14: for a request URL that embeds a list of name/value pairs, getTabId
\* returns the value of the first pair whose name is paramKey ('tid' when no
\* paramKey is given), whatever pairs surround it and whatever the fragment
\* holds, and undefined when no pair has that name.
C14_GetTabIdFirstValue ==
    call.fn = "getTabId"
      => LET key == IF call.paramKey = Undefined THEN SEARCH_PARAM_KEY
                    ELSE call.paramKey
             hits == {i \in 1..Len(call.embedded) : call.embedded[i][1] = key}
             first == CHOOSE i \in hits : \A j \in hits : i <= j
         IN call.result = IF hits = {} THEN Undefined
                          ELSE call.embedded[first][2]

\* C14 witness: a request that binds 'tid' twice, after another parameter and
\* before a fragment; getTabId without options has returned the first value.
C14_FirstOfTwo ==
    /\ call.fn = "getTabId"
    /\ call.embedded = << <<<<"q">>, <<"a", " ", "b">>>>,
                          <<SEARCH_PARAM_KEY, TokenXY>>,
                          <<SEARCH_PARAM_KEY, TokenAB>> >>
    /\ call.url = Origin \o <<"?">>
                    \o Q(<<"q">>, <<"a", "+", "b">>) \o <<"&">>
                    \o Q(SEARCH_PARAM_KEY, TokenXY) \o <<"&">>
                    \o Q(SEARCH_PARAM_KEY, TokenAB)
                    \o <<"#">> \o Q(SEARCH_PARAM_KEY, TokenXX)
    /\ call.paramKey = Undefined
    /\ call.result = TokenXY

\* ---------------------------------------------------------------------------
\* C15
\* ---------------------------------------------------------------------------

\* A render that takes the server-side snapshot: the server render, and the
\* hydrating first client render.
ServerSnapshotStep ==
    \/ phase # "server" /\ phase' = "server"
    \/ phase = "server" /\ phase' = "client"

\* C15: a render that takes the server-side snapshot returns the first value
\* the current URL binds to idSearchParamKey, or undefined when the URL binds
\* none, and leaves the tab store as it was: nothing is generated, nothing is
\* stored.
C15_ServerSnapshotFromUrlOnly ==
    [][ ServerSnapshotStep
          => /\ LET all == ParamsGetAll(URLSearchParams(CurrentSearch),
                                        options.idSearchParamKey)
                IN id' = IF all = <<>> THEN Undefined ELSE all[1]
             /\ sessionStorage' = sessionStorage ]_vars

\* A server render of a URL that binds the key twice, over an empty store:
\* the first binding is returned and the store is still empty.
C15_ServerRenderedFromUrl ==
    /\ phase = "server"
    /\ Stored = Null
    /\ Len(ParamsGetAll(URLSearchParams(CurrentSearch), options.idSearchParamKey)) = 2
    /\ id = TokenSS

\* ---------------------------------------------------------------------------
\* C16
\* ---------------------------------------------------------------------------

\* The registered listener has handled an event for the watched key: the
\* callback ran and the snapshot was derived again.
NotificationHandled == subscribed /\ event' = options.sessionStorageKey

\* The statement as written: handling a notification for the watched key
\* leaves the tab store with the content the outside change left in it,
\* whether that is another value or the key removed.
C16_StoreSameAfterNotification ==
    [][ NotificationHandled => sessionStorage' = sessionStorage ]_vars

\* C16: handling a notification for the watched key leaves a store that holds
\* a value for the key exactly as it was; when the key was removed, it leaves
\* the key holding a generated token, and every other key as it was.
C16_StoreKeptOrRefilled ==
    [][ NotificationHandled
          => /\ Stored # Null => sessionStorage' = sessionStorage
             /\ Stored = Null
                  => /\ Stored' \in GeneratedIds
                     /\ \A k \in StorageKeys \ {options.sessionStorageKey} :
                          sessionStorage'[k] = sessionStorage[k] ]_vars

\* The watched key was removed from outside while the component showed the
\* token it held; the notification has been handled and the key holds a
\* generated token the component does not show yet.
C16_RefilledAfterRemoval ==
    /\ Mounted /\ subscribed /\ event = options.sessionStorageKey
    /\ id = TokenXY /\ Stored \in GeneratedIds /\ dirty

\* ---------------------------------------------------------------------------
\* C17
\* ---------------------------------------------------------------------------

\* A correcting navigation has just failed: navigateFn raised, or the promise
\* it returned rejected.
NavigationFailed == failure' # failure /\ failure'.kind \in {"thrown", "rejected"}

C18_StoreUnavailableIsFatal ==
    [][ (storageFault \in StorageFaults)
          => /\ failure'.kind = "storage"
                  => /\ failure'.surfaced
                     /\ phase' = "unmounted" /\ id' = Undefined
                     /\ ~effectPending' /\ ~syncPending'
             /\ phase' = "client" => phase \in {"server", "client"}
             /\ id' # Undefined
                  => LET all == ParamsGetAll(URLSearchParams(search'),
                                            options.idSearchParamKey)
                     IN all # <<>> /\ id' = all[1]
             /\ ~StoreExternal => sessionStorage' = sessionStorage
             /\ nav' = None /\ ~thens' ]_vars

\* setItem raises, the store is empty and the URL has no token, navigate is
\* enabled: the render failed with the exception, nothing is mounted, the
\* store is still empty and no navigation was asked for.
C18_FailedWithoutFallback ==
    /\ storageFault = "write"
    /\ failure = [kind |-> "storage", surfaced |-> TRUE, stale |-> FALSE]
    /\ options.navigate
    /\ phase = "unmounted" /\ id = Undefined
    /\ Stored = Null /\ UrlToken = Null
    /\ nav = None

\* ---------------------------------------------------------------------------
\* C19  generateId
\* ---------------------------------------------------------------------------

\* /^[a-z]{2}-[0-9]{4}$/
MatchesIdFormat(s) ==
    /\ Len(s) = 7
    /\ \A i \in {1, 2} :
         s[i] \in {"a", "b", "c", "d", "e", "f", "g", "h", "i", "j", "k", "l", "m",
                   "n", "o", "p", "q", "r", "s", "t", "u", "v", "w", "x", "y", "z"}
    /\ s[3] = "-"
    /\ \A i \in 4..7 : s[i] \in {"0", "1", "2", "3", "4", "5", "6", "7", "8", "9"}

\* C19: every value generateId returns has seven characters, two of a-z, a
\* hyphen, four of 0-9; and the token the hook stores into an empty tab store
\* has that format.
C19_GeneratedIdFormat ==
    /\ call.fn = "generateId" => MatchesIdFormat(call.result)
    /\ Stored # Null => MatchesIdFormat(Stored)

\* The largest random values for the first letter and the outer digits, the
\* smallest for the rest: generateId returned za-9009; and the hook has
\* rendered on the empty store and stored a token.
C19_ExtremeDraws ==
    /\ call.fn = "generateId"
    /\ call.random = <<999, 0, 999, 0, 0, 999>>
    /\ call.result = <<"z", "a", "-", "9", "0", "0", "9">>
    /\ phase = "client" /\ Stored # Null /\ id = Stored

\* ---------------------------------------------------------------------------
\* C20
\* ---------------------------------------------------------------------------

C21_NavigationsBounded ==
    [][ /\ tally'.navigations <= tally'.changes + 1
        /\ (budget' = MaxExternal) => (tally'.navigations <= 1)
        /\ ( /\ Mounted /\ Mounted' /\ budget' = budget
             /\ SyncState = "SYNCED" /\ id = Stored /\ nav = None )
           => SyncState' = "SYNCED" ]_vars

\* The store was overwritten while the first correction was in flight: the
\* hook has rendered one change and has asked for its second navigation.
C21_SecondNavigationAfterChange ==
    /\ tally = [on |-> TRUE, navigations |-> 2, changes |-> 1]
    /\ Mounted /\ nav # None
    /\ budget = MaxExternal - 1

\* ---------------------------------------------------------------------------
\* C22
\* ---------------------------------------------------------------------------

\* A link has been followed in the tab (the history has grown), the hook is
\* still mounted and returns the stored token, and the URL now shown lacks
\* that token or carries another one.
BehindAfterInTabNavigation ==
    /\ Mounted /\ options.navigate
    /\ index > 1
    /\ id = Stored /\ UrlToken # Stored

\* The URL shown carries the stored token next to the other query parameters
\* of the location the tab navigated to, and no correction is in flight.
CorrectedInPlace ==
    /\ Mounted /\ nav = None
    /\ UrlToken = Stored
    /\ \E target \in LinkSearches :
         ParamsWithout(URLSearchParams(CurrentSearch), options.idSearchParamKey)
           = ParamsWithout(URLSearchParams(target), options.idSearchParamKey)

\* C22: under the runtime's scheduling, once an in-tab navigation has left
\* the mounted hook with a URL that lacks the stored token or carries another
\* one, the hook comes to show the new URL with the stored token and its
\* other query parameters, unless something outside changes the store or the
\* URL again or the hook is unmounted first.
C22_CorrectsAfterInTabNavigation ==
    \A n \in 0..(MaxExternal - 1) :
        (BehindAfterInTabNavigation /\ budget = n)
            ~> (CorrectedInPlace \/ budget # n \/ ~Mounted)

\* ---------------------------------------------------------------------------
\* C23
\* ---------------------------------------------------------------------------

\* The window has just received the `storage` event of an outside change of
\* the watched key while the hook is mounted and listening, and the store no
\* longer holds the token the hook returns: the event of an overwrite or of
\* a removal carries the watched key; the event of a clear carries no key and
\* leaves every key of the store empty.
MutationNotified ==
    /\ Mounted /\ subscribed
    /\ id # Undefined /\ Stored # id
    /\ \/ event = options.sessionStorageKey
       \/ event = Null /\ \A k \in StorageKeys : sessionStorage[k] = Null

\* The hook returns the token the store holds.
ExposesStored == Mounted /\ Stored # Null /\ id = Stored

\* C23: under the runtime's scheduling, once the window has been notified of
\* an outside overwrite or removal of the watched key, or of a clear of the
\* store, the hook comes to return the token the store holds (so the store
\* does not stay empty under a hook that returns an old token), unless the
\* store or the URL is changed from outside again or the hook is unmounted
\* first.
C23_ExposesStoredAfterMutation ==
    \A n \in 0..(MaxExternal - 1) :
        (MutationNotified /\ budget = n)
            ~> (ExposesStored \/ budget # n \/ ~Mounted)

\* ---------------------------------------------------------------------------
\* C24
\* ---------------------------------------------------------------------------

\* Every component is mounted, nothing of any of them is scheduled and no
\* navigation is in flight.
PeersIdle ==
    /\ \A i \in Instances :
         peers[i].mounted /\ ~peers[i].dirty /\ ~peers[i].effectPending
    /\ nav = None

\* C24: with several components calling useTabId on the same keys, in any
\* order of their renders and effects: the store is written only while it is
\* empty, with one generated token; every mounted component returns the token
\* the store holds; every navigation asked for binds idSearchParamKey to that
\* token, once; and when all components are mounted and at rest the URL
\* carries it.
C24_PeersShareOneToken ==
    [][ /\ (sessionStorage' # sessionStorage)
            => (Stored = Null /\ Stored' \in GeneratedIds)
        /\ \A i \in Instances : peers'[i].mounted => peers'[i].id = Stored'
        /\ (nav' # None)
            => ParamsGetAll(URLSearchParams(nav'.search), options.idSearchParamKey)
                 = <<Stored'>>
        /\ PeersIdle' => UrlToken' = Stored' ]_vars

\* Two components over a store that was empty: both return the one generated
\* token, both are at rest, and the URL carries that token.
C24_BothOnGeneratedToken ==
    /\ PeersIdle
    /\ Stored \in GeneratedIds
    /\ \A i \in Instances : peers[i].id = Stored
    /\ UrlToken = Stored

====
